---- MODULE Spec2Model ----
(***************************************************************************)
(* Model of the accu-chat bookkeeping backend: the relational store        *)
(* (transactions, budgets, accounts, categories, customers, vendors), the  *)
(* budget rollup trigger on public.transactions, and the ai-accountant     *)
(* edge function that turns one model reply into at most one write.        *)
(*                                                                         *)
(* Amounts are whole currency units, dates are day numbers, uuids are      *)
(* small integers or short strings.                                        *)
(***************************************************************************)
EXTENDS Integers, Sequences, FiniteSets, TLC

\* ------------------------------------------------------------------ bounds
\* ids ever handed out by gen_random_uuid() for transactions / budgets
MaxTransactions == 2
MaxBudgets == 2
\* requests served by the ai-accountant function in one run
MaxRequests == 2

\* ------------------------------------------------------------- value sets
NULL == "NULL"
Users == {"u1", "u2"}
CategoryIds == {"c1", "c2"}

\* Column values of the transactions written: (user_id, amount, category_id,
\* transaction_date).  Dates 1 and 2 are the bounds of the window [1, 2], date
\* 3 lies after it; c1 belongs to u1 and is also referenced by u2's rows (the
\* foreign key names categories(id) only).
TxnInputs ==
    { <<"u1", -1, "c1", 1>>, <<"u1", -2, "c1", 2>>, <<"u1", -1, "c1", 3>>,
      <<"u1", 1, "c1", 2>>,  <<"u1", -2, "c2", 2>>,
      <<"u2", -2, "c1", 2>> }

\* Column values of the budgets created: (user_id, category_id, <<start_date,
\* end_date>>)
BudgetInputs ==
    { <<"u1", "c1", <<1, 2>> >>, <<"u1", "c1", <<2, 3>> >>,
      <<"u1", "c2", <<1, 2>> >>, <<"u1", NULL, <<1, 2>> >>,
      <<"u2", "c1", <<1, 2>> >> }

\* CREATE TYPE public.transaction_status AS ENUM (...)
transaction_status == {"pending", "cleared", "reconciled"}

VARIABLES
    transactions,   \* committed rows of public.transactions
    budgets,        \* committed rows of public.budgets
    nextTxnId,      \* next fresh transactions.id
    nextBudgetId,   \* next fresh budgets.id
    last,           \* the last completed store operation (history)
    sess,           \* database sessions: one open single-row write each
    stale,          \* history: some trigger UPDATE ran on an outdated snapshot
    accounts,       \* rows of public.accounts
    categories,     \* rows of public.categories
    customers,      \* rows of public.customers
    vendors,        \* rows of public.vendors
    handled,        \* requests the ai-accountant function has served
    req,            \* the last request served and the reply sent (history)
    messages,       \* rows of public.messages, in the order of their insertion
    conversations,  \* rows of public.conversations
    now,            \* the database clock, now()
    send,           \* the sendMessage call of the useChat hook, and where it is
    ui,             \* state of the useChat hook
    rt              \* realtime: commits per table, change messages, views

dbvars == <<transactions, budgets, nextTxnId, nextBudgetId, last>>
concvars == <<sess, stale>>
sidevars == <<accounts, categories, customers, vendors>>
fnvars == <<handled, req>>
chatvars == <<messages, conversations, now, send, ui>>
vars == <<dbvars, concvars, sidevars, fnvars, chatvars, rt>>

\* ------------------------------------------------------------ SQL helpers
Abs(x) == IF x < 0 THEN -x ELSE x

\* (variant: NEW.user_id alone)
CoalesceFirst(a, b) == a

\* COALESCE(a, b)
Coalesce(a, b) == IF a # NULL THEN a ELSE b

RECURSIVE SumAbs(_)
\* SUM(ABS(t.amount)) over a set of rows
SumAbs(rows) ==
    IF rows = {} THEN 0
    ELSE LET t == CHOOSE r \in rows : TRUE
         IN  Abs(t.amount) + SumAbs(rows \ {t})

\* The correlated subquery of the trigger's UPDATE, for budget row b:
\*   WHERE t.category_id = budgets.category_id AND t.user_id = budgets.user_id
\*   AND t.transaction_date BETWEEN budgets.start_date AND budgets.end_date
\*   AND t.amount < 0
\* (a NULL category_id on either side makes the equality not true)
\* (variant: the BETWEEN clause left out)
SpentRowsAnyDate(b, txns) ==
    { t \in txns :
        /\ t.category_id # NULL /\ b.category_id # NULL
        /\ t.category_id = b.category_id
        /\ t.user_id = b.user_id
        /\ t.amount < 0 }

SpentRows(b, txns) ==
    { t \in txns :
        /\ t.category_id # NULL /\ b.category_id # NULL
        /\ t.category_id = b.category_id
        /\ t.user_id = b.user_id
        /\ b.start_date <= t.transaction_date
        /\ t.transaction_date <= b.end_date
        /\ t.amount < 0 }

\* SELECT COALESCE(SUM(ABS(t.amount)), 0)
Spent(b, txns) == SumAbs(SpentRows(b, txns))

\* Which budget rows the trigger's UPDATE targets for row change (NEW, OLD):
\*   WHERE user_id = COALESCE(NEW.user_id, OLD.user_id) AND category_id IS NOT NULL
\* NEW / OLD are rows; the absent one (OLD of an insert, NEW of a delete) is
\* NoRow, whose every column is NULL.
NoRow == [id |-> 0, user_id |-> NULL, amount |-> 0, category_id |-> NULL,
          transaction_date |-> 0, account_id |-> NULL, status |-> NULL]
\* (variant: the WHERE user_id = ... clause left out)
TargetsBudgetAnyUser(b, new, old) ==
    /\ b.category_id # NULL

TargetsBudget(b, new, old) ==
    /\ b.user_id = Coalesce(new.user_id, old.user_id)
    /\ b.category_id # NULL

\* (variant: a budget without category counting every expense of its owner in
\* its window)
update_budget_spent_amountsOverall(new, old, buds, txns) ==
    { IF b.user_id = Coalesce(new.user_id, old.user_id)
        THEN [b EXCEPT !.spent_amount =
                IF b.category_id # NULL THEN Spent(b, txns)
                ELSE SumAbs({ t \in txns :
                                /\ t.user_id = b.user_id /\ t.amount < 0
                                /\ b.start_date <= t.transaction_date
                                /\ t.transaction_date <= b.end_date })]
        ELSE b : b \in buds }

\* public.update_budget_spent_amounts(): one run of the trigger function
update_budget_spent_amounts(new, old, buds, txns) ==
    { IF TargetsBudget(b, new, old)
        THEN [b EXCEPT !.spent_amount = Spent(b, txns)]
        ELSE b : b \in buds }

\* The AFTER INSERT OR UPDATE OR DELETE ... FOR EACH ROW triggers on
\* public.transactions that run update_budget_spent_amounts(), migration by
\* migration in timestamp order.
Triggers0916 == {"update_budget_amounts_on_transaction_change"}
\* (variant: the DROP TRIGGER naming the trigger that does exist)
Triggers0917DropExisting ==
    (Triggers0916 \ {"update_budget_amounts_on_transaction_change"})
        \cup {"update_budget_spent_amounts_trigger"}

Triggers0917 ==
    (Triggers0916 \ {"update_budget_spent_amounts_trigger"})   \* DROP TRIGGER IF EXISTS
        \cup {"update_budget_spent_amounts_trigger"}            \* CREATE TRIGGER
RollupTriggers == Triggers0917

RECURSIVE FireTriggers(_, _, _, _, _)
\* every rollup trigger fires once per changed row; n triggers left to fire
FireTriggers(n, new, old, buds, txns) ==
    IF n = 0 THEN buds
    ELSE FireTriggers(n - 1, new, old,
                      update_budget_spent_amounts(new, old, buds, txns), txns)

\* ------------------------------------------------------------------ Init
Sessions == {"s1", "s2"}

\* handle_new_user(): the accounts and categories every user starts with
\* (one expense account and one or two categories each are kept)
SignupAccounts ==
    { [id |-> "a1", user_id |-> "u1", account_type |-> "expense", code |-> "5000"],
      [id |-> "a2", user_id |-> "u2", account_type |-> "expense", code |-> "5000"] }
SignupCategories ==
    { [id |-> "c1", user_id |-> "u1", name |-> "Travel"],
      [id |-> "c2", user_id |-> "u1", name |-> "Software"],
      [id |-> "c3", user_id |-> "u2", name |-> "Travel"] }

\* a reply record: the response text is a format (one of the fixed templates
\* of the function, or "verbatim"), the words it embeds and its text
Resp(fmt, word, num, text) == [fmt |-> fmt, word |-> word, num |-> num, text |-> text]

NoRequest ==
    [fn |-> "", caller |-> "", userId |-> "",
     context |-> [accounts |-> {}, categories |-> {}, customers |-> {},
                  vendors |-> {}, transactions |-> {}],
     modelOk |-> FALSE, ai |-> <<>>, status |-> 0,
     response |-> Resp("", "", 0, <<>>), actionPerformed |-> FALSE,
     actionType |-> "", calls |-> 0]

\* no sendMessage in flight
IdleSend ==
    [pc |-> "idle", conversationId |-> NULL, content |-> Resp("", "", 0, <<>>),
     aiResponse |-> Resp("", "", 0, <<>>), outcome |-> "", acted |-> FALSE,
     touchedFrom |-> 0, sends |-> 0, created |-> FALSE]

\* a select of the hook on its way: fetchMessages(arg), or fetchConversations
\* called from a render in which currentConversationId was arg; read says
\* that the rows (data) have been selected and the answer is on its way back
MessagesLoad(conversationId) ==
    [kind |-> "messages", arg |-> conversationId, read |-> FALSE, data |-> <<>>]
ConversationsLoad(currentConversationId) ==
    [kind |-> "conversations", arg |-> currentConversationId, read |-> FALSE,
     data |-> <<>>]

\* the hook after mount: nothing selected, the list of the first render on
\* its way (afterNew and clicks are bookkeeping: newConversation was the last
\* thing the user did; the number of clicks on the sidebar)
InitChat ==
    /\ messages = <<>>
    /\ conversations = {}
    /\ now = 0
    /\ send = IdleSend
    /\ ui = [currentConversationId |-> NULL, isLoading |-> FALSE, messages |-> <<>>,
             conversations |-> <<>>, loads |-> {ConversationsLoad(NULL)},
             afterNew |-> FALSE, clicks |-> 0]

\* the views that show a table, and the state of realtime before any commit
Views == {"AccountingDashboard", "CustomerManager", "VendorManager", "BudgetManager"}
Tables == {"transactions", "customers", "vendors", "budgets"}
InitRealtime ==
    rt = [commits |-> [t \in Tables |-> 0],
          pending |-> [v \in Views |-> 0],
          fetching |-> [v \in Views |-> 0],
          seen |-> [v \in Views |-> 0]]

IdleSession == [pc |-> "idle", row |-> NoRow, fired |-> 0, snap |-> {}, wrote |-> {}]

Init ==
    /\ transactions = {}
    /\ budgets = {}
    /\ nextTxnId = 1
    /\ nextBudgetId = 1
    /\ last = [kind |-> "none", user |-> NULL, runs |-> 0]
    /\ sess = [s \in Sessions |-> IdleSession]
    /\ stale = FALSE
    /\ accounts = SignupAccounts
    /\ categories = SignupCategories
    /\ customers = {}
    /\ vendors = {}
    /\ handled = 0
    /\ req = NoRequest
    /\ InitChat
    /\ InitRealtime

\* A single-row statement on public.transactions, committed: the row change,
\* then every rollup trigger, each reading the table after the change.
RowChange(kind, new, old, txnsAfter) ==
    /\ transactions' = txnsAfter
    /\ budgets' = FireTriggers(Cardinality(RollupTriggers), new, old, budgets, txnsAfter)
    /\ last' = [kind |-> kind,
                user |-> Coalesce(new.user_id, old.user_id),
                runs |-> Cardinality(RollupTriggers)]

\* the account created for each user at signup (handle_new_user)
DefaultAccount(u) == IF u = "u1" THEN "a1" ELSE "a2"

\* a row of public.transactions written by a plain INSERT: the user's own
\* account, status DEFAULT 'pending'
TxnRow(id, u, amt, cat, d) ==
    [id |-> id, user_id |-> u, amount |-> amt, category_id |-> cat,
     transaction_date |-> d, account_id |-> DefaultAccount(u), status |-> "pending"]

\* INSERT INTO public.transactions
InsertTransaction(u, amt, cat, d) ==
    /\ nextTxnId <= MaxTransactions
    /\ LET new == TxnRow(nextTxnId, u, amt, cat, d)
       IN  RowChange("insert", new, NoRow, transactions \cup {new})
    /\ nextTxnId' = nextTxnId + 1
    /\ UNCHANGED <<nextBudgetId, concvars, sidevars, fnvars, chatvars, rt>>

\* UPDATE public.transactions SET amount, category_id, transaction_date WHERE id = ...
\* (user_id stays: the row policy's WITH CHECK (auth.uid() = user_id), and
\* UPDATE_TRANSACTION sets no user_id)
UpdateTransaction(old, amt, cat, d) ==
    /\ old \in transactions
    /\ LET new == [old EXCEPT !.amount = amt, !.category_id = cat,
                              !.transaction_date = d]
       IN  RowChange("update", new, old, (transactions \ {old}) \cup {new})
    /\ UNCHANGED <<nextTxnId, nextBudgetId, concvars, sidevars, fnvars, chatvars, rt>>

\* DELETE FROM public.transactions WHERE id = ...
DeleteTransaction(old) ==
    /\ old \in transactions
    /\ RowChange("delete", NoRow, old, transactions \ {old})
    /\ UNCHANGED <<nextTxnId, nextBudgetId, concvars, sidevars, fnvars, chatvars, rt>>

\* INSERT INTO public.budgets: spent_amount NUMERIC NOT NULL DEFAULT 0, and no
\* trigger on public.budgets computes it
InsertBudget(u, cat, w) ==
    /\ nextBudgetId <= MaxBudgets
    /\ budgets' = budgets \cup
         {[id |-> nextBudgetId, user_id |-> u, category_id |-> cat,
           start_date |-> w[1], end_date |-> w[2], spent_amount |-> 0]}
    /\ nextBudgetId' = nextBudgetId + 1
    /\ last' = [kind |-> "budget", user |-> u, runs |-> 0]
    /\ UNCHANGED <<transactions, nextTxnId, concvars, sidevars, fnvars, chatvars, rt>>

Next ==
    \/ \E v \in TxnInputs : InsertTransaction(v[1], v[2], v[3], v[4])
    \/ \E old \in transactions, v \in TxnInputs :
          /\ v[1] = old.user_id
          /\ UpdateTransaction(old, v[2], v[3], v[4])
    \/ \E old \in transactions : DeleteTransaction(old)
    \/ \E v \in BudgetInputs : InsertBudget(v[1], v[2], v[3])

Spec == Init /\ [][Next]_vars

\* ------------------------------------------------ concurrent single-row writes
\* Two store sessions, each running one INSERT INTO public.transactions as its
\* own database transaction under READ COMMITTED (the store's default): the
\* row is inserted, each rollup trigger runs its UPDATE public.budgets, the
\* transaction commits.  A statement reads the rows committed when it started
\* plus the session's own; an UPDATE waits for a budget row another open
\* transaction has written and then goes on with the sum it computed from its
\* own statement snapshot.

\* rows and budgets of the concurrent writes: two users, one shared category,
\* two windows
ConcTxnInputs == { <<"u1", -1, "c1", 1>>, <<"u1", -2, "c1", 2>>, <<"u2", -2, "c1", 2>> }
ConcBudgetInputs == { <<"u1", "c1", <<1, 2>> >>, <<"u1", "c1", <<2, 3>> >>,
                      <<"u2", "c1", <<1, 2>> >> }

InFlight(s) == sess[s].pc # "idle"
Quiescent == \A s \in Sessions : ~InFlight(s)

\* budget rows the session's trigger UPDATE targets
SessTargets(s) == { b \in budgets : TargetsBudget(b, sess[s].row, NoRow) }

\* budget ids locked by open transactions other than s
LockedByOthers(s) ==
    UNION { { w.id : w \in sess[o].wrote } : o \in Sessions \ {s} }

\* the INSERT statement of CREATE_TRANSACTION: the row exists in the session
SBegin(s, u, amt, cat, d) ==
    /\ sess[s].pc = "idle"
    /\ nextTxnId <= MaxTransactions
    /\ sess' = [sess EXCEPT ![s] =
                  [IdleSession EXCEPT !.pc = "fire",
                                      !.row = TxnRow(nextTxnId, u, amt, cat, d)]]
    /\ nextTxnId' = nextTxnId + 1
    /\ UNCHANGED <<transactions, budgets, nextBudgetId, last, stale, sidevars, fnvars, chatvars, rt>>

\* a rollup trigger fires: its UPDATE statement starts and takes its snapshot
SSnapshot(s) ==
    /\ sess[s].pc = "fire"
    /\ sess' = [sess EXCEPT ![s].pc = "update",
                            ![s].snap = transactions \cup {sess[s].row}]
    /\ UNCHANGED <<dbvars, stale, sidevars, fnvars, chatvars, rt>>

\* the trigger's UPDATE writes the budget rows once no other open transaction
\* holds them; the sums come from the statement's snapshot
SUpdate(s) ==
    /\ sess[s].pc = "update"
    /\ { b.id : b \in SessTargets(s) } \cap LockedByOthers(s) = {}
    /\ LET n == Cardinality(RollupTriggers)
           done == sess[s].fired + 1
       IN  sess' = [sess EXCEPT
                ![s].wrote = { [id |-> b.id, spent_amount |-> Spent(b, sess[s].snap)] :
                               b \in SessTargets(s) },
                ![s].fired = done,
                ![s].pc = IF done < n THEN "fire" ELSE "commit"]
    /\ stale' = (stale \/ sess[s].snap # transactions \cup {sess[s].row})
    /\ UNCHANGED <<dbvars, sidevars, fnvars, chatvars, rt>>

\* COMMIT: the row and the budget values the session wrote become visible
SCommit(s) ==
    /\ sess[s].pc = "commit"
    /\ transactions' = transactions \cup {sess[s].row}
    /\ budgets' = { IF \E w \in sess[s].wrote : w.id = b.id
                      THEN [b EXCEPT !.spent_amount =
                              (CHOOSE w \in sess[s].wrote : w.id = b.id).spent_amount]
                      ELSE b : b \in budgets }
    /\ last' = [kind |-> "insert", user |-> sess[s].row.user_id,
                runs |-> sess[s].fired]
    /\ sess' = [sess EXCEPT ![s] = IdleSession]
    /\ UNCHANGED <<nextTxnId, nextBudgetId, stale, sidevars, fnvars, chatvars, rt>>

\* (variant: the trigger function catching its own error, so the statement
\* goes on and the row is committed without its recomputation)
SRaiseSwallowed(s) ==
    /\ sess[s].pc = "update"
    /\ transactions' = transactions \cup {sess[s].row}
    /\ last' = [kind |-> "failed", user |-> sess[s].row.user_id,
                runs |-> sess[s].fired]
    /\ sess' = [sess EXCEPT ![s] = IdleSession]
    /\ UNCHANGED <<budgets, nextTxnId, nextBudgetId, stale, sidevars, fnvars, chatvars, rt>>

\* the trigger's UPDATE raises an error: the function has no EXCEPTION block,
\* so the error aborts the statement and its transaction; nothing the session
\* did is kept
SRaise(s) ==
    /\ sess[s].pc = "update"
    /\ last' = [kind |-> "failed", user |-> sess[s].row.user_id,
                runs |-> sess[s].fired]
    /\ sess' = [sess EXCEPT ![s] = IdleSession]
    /\ UNCHANGED <<transactions, budgets, nextTxnId, nextBudgetId, stale, sidevars, fnvars, chatvars, rt>>

\* budgets set up before the first write starts
SetupBudget(u, cat, w) ==
    /\ nextTxnId = 1
    /\ InsertBudget(u, cat, w)

NextConc ==
    \/ \E v \in ConcBudgetInputs : SetupBudget(v[1], v[2], v[3])
    \/ \E s \in Sessions, v \in ConcTxnInputs : SBegin(s, v[1], v[2], v[3], v[4])
    \/ \E s \in Sessions : SSnapshot(s)
    \/ \E s \in Sessions : SUpdate(s)
    \/ \E s \in Sessions : SCommit(s)
    \/ \E s \in Sessions : SRaise(s)

SpecConc == Init /\ [][NextConc]_vars

\* --------------------------------------------- ai-accountant: the model reply
\* The reply text (aiData.choices[0].message.content) is a sequence of tokens:
\* the code fence (three backticks), the json tag, white space, plain words, and the text of one
\* JSON value (a token of JsonTokens, standing for that value's source text).
Fence == "<fence>"
JsonTag == "json"
NL == "<nl>"
SP == "<sp>"
IsWhite(c) == c \in {NL, SP}

RECURSIVE TrimStart(_)
TrimStart(t) == IF t # <<>> /\ IsWhite(Head(t)) THEN TrimStart(Tail(t)) ELSE t
RECURSIVE TrimEnd(_)
TrimEnd(t) ==
    IF t # <<>> /\ IsWhite(t[Len(t)]) THEN TrimEnd(SubSeq(t, 1, Len(t) - 1)) ELSE t
\* String.prototype.trim()
Trim(t) == TrimEnd(TrimStart(t))

\* String.prototype.startsWith(p)
StartsWith(t, p) == Len(t) >= Len(p) /\ SubSeq(t, 1, Len(p)) = p

RECURSIVE RemoveAll(_, _)
\* t.replace(/p\n?/g, ''): every occurrence of p, with the line break after it
RemoveAll(t, p) ==
    IF t = <<>> THEN <<>>
    ELSE IF StartsWith(t, p)
      THEN LET rest == SubSeq(t, Len(p) + 1, Len(t))
           IN  RemoveAll(IF rest # <<>> /\ Head(rest) = NL THEN Tail(rest) ELSE rest, p)
      ELSE <<Head(t)>> \o RemoveAll(Tail(t), p)

\* t.replace(/\n?<fence>$/g, ''): a fence at the very end, with the line break before it
RemoveFenceAtEnd(t) ==
    IF t # <<>> /\ t[Len(t)] = Fence
      THEN LET u == SubSeq(t, 1, Len(t) - 1)
           IN  IF u # <<>> /\ u[Len(u)] = NL THEN SubSeq(u, 1, Len(u) - 1) ELSE u
      ELSE t

\* cleanResponse of the function embedded in the first migration file
cleanResponse(aiResponse) ==
    LET c == Trim(aiResponse)
    IN  IF StartsWith(c, <<Fence, JsonTag>>)
          THEN RemoveFenceAtEnd(RemoveAll(c, <<Fence, JsonTag>>))
        ELSE IF StartsWith(c, <<Fence>>)
          THEN RemoveFenceAtEnd(RemoveAll(c, <<Fence>>))
        ELSE c

\* The data object of an action: `has` names the keys that are present.
NoData ==
    [has |-> {}, amount |-> 0, description |-> "", account_id |-> "",
     category_id |-> "", transaction_date |-> 0, id |-> 0, name |-> "",
     budget_type |-> "", start_date |-> 0, end_date |-> 0, account_type |-> "",
     code |-> "", type |-> "", user_id |-> ""]

TxnData(amt, desc, acc) ==
    [NoData EXCEPT !.has = {"amount", "description", "account_id"},
                   !.amount = amt, !.description = desc, !.account_id = acc]
TxnDataFull(amt, desc, acc, cat, d) ==
    [TxnData(amt, desc, acc) EXCEPT
        !.has = {"amount", "description", "account_id", "category_id", "transaction_date"},
        !.category_id = cat, !.transaction_date = d]

\* A parsed JSON value.  kind "null" is the JSON text null.
JsonObject(action, hasData, data, response) ==
    [kind |-> "object", action |-> action, hasData |-> hasData, data |-> data,
     response |-> response]
JsonNull == [kind |-> "null", action |-> "", hasData |-> FALSE, data |-> NoData,
             response |-> ""]

JsonTokens ==
    { "{expense}", "{expense-cat}", "{income}", "{bad-account}", "{no-data}",
      "{update}", "{budget}", "{category}", "{category-dup}", "{account}",
      "{customer}", "{vendor}", "{analyze}", "{no-action}", "null",
      "{expense-owner}", "{analyze-silent}" }

\* the value each JSON text stands for
JsonValue(tok) ==
    CASE tok = "{expense}" ->
           JsonObject("CREATE_TRANSACTION", TRUE, TxnData(-25, "Taxi", "a1"), "noted")
      [] tok = "{expense-cat}" ->
           JsonObject("CREATE_TRANSACTION", TRUE,
                      TxnDataFull(-2, "Hotel", "a1", "c1", 2), "noted")
      [] tok = "{income}" ->
           JsonObject("CREATE_TRANSACTION", TRUE, TxnData(10, "Sale", "a1"), "noted")
      [] tok = "{bad-account}" ->
           JsonObject("CREATE_TRANSACTION", TRUE, TxnData(-25, "Taxi", "a9"), "noted")
      [] tok = "{expense-owner}" ->
           JsonObject("CREATE_TRANSACTION", TRUE,
                      [TxnData(-3, "Fee", "a1") EXCEPT
                          !.has = @ \cup {"user_id"}, !.user_id = "u2"], "noted")
      [] tok = "{no-data}" ->
           JsonObject("CREATE_TRANSACTION", FALSE, NoData, "noted")
      [] tok = "{update}" ->
           JsonObject("UPDATE_TRANSACTION", TRUE,
                      [TxnDataFull(-1, "Train", "a1", "c1", 1) EXCEPT
                          !.has = @ \cup {"id"}, !.id = 1], "changed")
      [] tok = "{budget}" ->
           JsonObject("CREATE_BUDGET", TRUE,
                      [NoData EXCEPT
                          !.has = {"name", "amount", "budget_type", "category_id",
                                   "start_date", "end_date"},
                          !.name = "Trips", !.amount = 100, !.budget_type = "monthly",
                          !.category_id = "c1", !.start_date = 1, !.end_date = 2],
                      "budget set")
      [] tok = "{category}" ->
           JsonObject("CREATE_CATEGORY", TRUE,
                      [NoData EXCEPT !.has = {"name"}, !.name = "Gifts"], "added")
      [] tok = "{category-dup}" ->
           JsonObject("CREATE_CATEGORY", TRUE,
                      [NoData EXCEPT !.has = {"name"}, !.name = "Travel"], "added")
      [] tok = "{account}" ->
           JsonObject("CREATE_ACCOUNT", TRUE,
                      [NoData EXCEPT !.has = {"name", "account_type", "code"},
                                     !.name = "Fuel", !.account_type = "expense",
                                     !.code = "5100"], "added")
      [] tok = "{customer}" ->
           JsonObject("CREATE_CUSTOMER", TRUE,
                      [NoData EXCEPT !.has = {"name", "type"}, !.name = "Acme",
                                     !.type = "client"], "added")
      [] tok = "{vendor}" ->
           JsonObject("CREATE_VENDOR", TRUE,
                      [NoData EXCEPT !.has = {"name"}, !.name = "Depot"], "added")
      [] tok = "{analyze}" ->
           JsonObject("ANALYZE_SPENDING", FALSE, NoData, "insight")
      [] tok = "{analyze-silent}" ->
           JsonObject("ANALYZE_SPENDING", FALSE, NoData, "")
      [] tok = "{no-action}" ->
           JsonObject("", FALSE, NoData, "hello")
      [] OTHER -> JsonNull

\* JSON.parse(text): white space around one JSON value is allowed, anything
\* else is a SyntaxError (ok = FALSE)
JSONparse(text) ==
    LET v == Trim(text)
    IN  IF Len(v) = 1 /\ v[1] \in JsonTokens
          THEN [ok |-> TRUE, value |-> JsonValue(v[1])]
          ELSE [ok |-> FALSE, value |-> JsonNull]

\* what the model may reply
Fenced(tok) == <<Fence, JsonTag, NL, tok, NL, Fence>>
FencedBare(tok) == <<Fence, NL, tok, NL, Fence>>
Replies ==
    { <<tok>> : tok \in JsonTokens }
      \cup { <<"words">>, <<SP, "words", NL>>, <<"words", "{expense}">>,
             Fenced("{expense}"), FencedBare("{expense}"), Fenced("words"),
             <<NL>> \o Fenced("{expense}") \o <<SP>>,
             <<NL, "{analyze}", NL>> }

\* ------------------------------------------ ai-accountant: the store calls
\* The store as one value, so that a call can return the store it leaves.
DB ==
    [transactions |-> transactions, budgets |-> budgets,
     nextTxnId |-> nextTxnId, nextBudgetId |-> nextBudgetId,
     accounts |-> accounts, categories |-> categories,
     customers |-> customers, vendors |-> vendors]

Ids(rows) == { r.id : r \in rows }
Has(d, key) == key \in d.has

\* the { data, error } of a supabase-js call: error "" is no error
Failed(db, message) == [error |-> message, db |-> db, fired |-> 0]
Done(db, fired) == [error |-> "", db |-> db, fired |-> fired]

account_type == {"asset", "liability", "equity", "revenue", "expense"}
budget_types == {"monthly", "quarterly", "yearly"}
customer_types == {"customer", "client"}
vendor_types == {"vendor", "supplier"}

\* new Date().toISOString().split('T')[0]
Today == 2

\* supabase.from('transactions').insert([{ user_id, amount, ..., status }]):
\* the column checks of public.transactions, then the row and its triggers
insertTransaction(db, userId, d, status) ==
    IF status \notin transaction_status
      THEN Failed(db, "invalid input value for enum transaction_status")
    ELSE IF ~Has(d, "amount") \/ ~Has(d, "description") \/ ~Has(d, "account_id")
      THEN Failed(db, "null value violates not-null constraint")
    ELSE IF d.account_id \notin Ids(db.accounts)
      THEN Failed(db, "violates foreign key constraint transactions_account_id_fkey")
    ELSE IF Has(d, "category_id") /\ d.category_id \notin Ids(db.categories)
      THEN Failed(db, "violates foreign key constraint transactions_category_id_fkey")
    ELSE
      LET new == [id |-> db.nextTxnId, user_id |-> userId, amount |-> d.amount,
                  category_id |-> IF Has(d, "category_id") THEN d.category_id ELSE NULL,
                  transaction_date |->
                      IF Has(d, "transaction_date") THEN d.transaction_date ELSE Today,
                  account_id |-> d.account_id, status |-> status]
          after == db.transactions \cup {new}
          n == Cardinality(RollupTriggers)
      IN  Done([db EXCEPT !.transactions = after,
                          !.nextTxnId = @ + 1,
                          !.budgets = FireTriggers(n, new, NoRow, db.budgets, after)],
               n)

\* (variant: the filter on user_id left out)
UpdateHitAnyOwner(db, userId, d) ==
    { t \in db.transactions : Has(d, "id") /\ t.id = d.id }

\* the rows an update reaches: .eq('id', data.id).eq('user_id', userId)
UpdateHit(db, userId, d) ==
    { t \in db.transactions : Has(d, "id") /\ t.id = d.id /\ t.user_id = userId }

\* supabase.from('transactions').update({...}).eq('id', data.id)
\*   .eq('user_id', userId).select().single()
\* (keys whose value is undefined are not sent, so their columns stay)
updateTransaction(db, userId, d) ==
    LET hit == UpdateHit(db, userId, d)
    IN  IF ~Has(d, "id")
          THEN Failed(db, "invalid input syntax for type uuid")
        ELSE IF Has(d, "account_id") /\ d.account_id \notin Ids(db.accounts) /\ hit # {}
          THEN Failed(db, "violates foreign key constraint transactions_account_id_fkey")
        ELSE IF Has(d, "category_id") /\ d.category_id \notin Ids(db.categories) /\ hit # {}
          THEN Failed(db, "violates foreign key constraint transactions_category_id_fkey")
        ELSE IF hit = {}
          THEN Failed(db, "JSON object requested, multiple (or no) rows returned")
        ELSE
          LET old == CHOOSE t \in hit : TRUE
              new == [old EXCEPT
                        !.amount = IF Has(d, "amount") THEN d.amount ELSE @,
                        !.account_id = IF Has(d, "account_id") THEN d.account_id ELSE @,
                        !.category_id = IF Has(d, "category_id") THEN d.category_id ELSE @,
                        !.transaction_date =
                            IF Has(d, "transaction_date") THEN d.transaction_date ELSE @]
              after == (db.transactions \ {old}) \cup {new}
              n == Cardinality(RollupTriggers)
          IN  Done([db EXCEPT !.transactions = after,
                              !.budgets = FireTriggers(n, new, old, db.budgets, after)],
                   n)

\* supabase.from('budgets').insert([{ user_id, name, amount, budget_type,
\*   category_id, start_date, end_date }]); spent_amount takes its DEFAULT 0
insertBudget(db, userId, d) ==
    IF ~Has(d, "name") \/ ~Has(d, "amount") \/ ~Has(d, "budget_type")
         \/ ~Has(d, "start_date") \/ ~Has(d, "end_date")
      THEN Failed(db, "null value violates not-null constraint")
    ELSE IF d.budget_type \notin budget_types
      THEN Failed(db, "violates check constraint budgets_budget_type_check")
    ELSE IF Has(d, "category_id") /\ d.category_id \notin Ids(db.categories)
      THEN Failed(db, "violates foreign key constraint budgets_category_id_fkey")
    ELSE Done([db EXCEPT
                !.budgets = @ \cup
                    {[id |-> db.nextBudgetId, user_id |-> userId,
                      category_id |-> IF Has(d, "category_id") THEN d.category_id ELSE NULL,
                      start_date |-> d.start_date, end_date |-> d.end_date,
                      spent_amount |-> 0]},
                !.nextBudgetId = @ + 1], 0)

\* (variant: the table without UNIQUE(user_id, name))
insertCategoryNoUnique(db, userId, d) ==
    IF ~Has(d, "name")
      THEN Failed(db, "null value violates not-null constraint")
    ELSE Done([db EXCEPT
                !.categories = @ \cup
                    {[id |-> "c" \o ToString(Cardinality(db.categories) + 1),
                      user_id |-> userId, name |-> d.name]}], 0)

\* supabase.from('categories').insert([{ user_id, name, description, color }])
insertCategory(db, userId, d) ==
    IF ~Has(d, "name")
      THEN Failed(db, "null value violates not-null constraint")
    ELSE IF \E c \in db.categories : c.user_id = userId /\ c.name = d.name
      THEN Failed(db, "duplicate key value violates unique constraint")
    ELSE Done([db EXCEPT
                !.categories = @ \cup
                    {[id |-> "c" \o ToString(Cardinality(db.categories) + 1),
                      user_id |-> userId, name |-> d.name]}], 0)

\* supabase.from('accounts').insert([{ user_id, name, account_type, code }])
insertAccount(db, userId, d) ==
    IF ~Has(d, "name") \/ ~Has(d, "account_type")
      THEN Failed(db, "null value violates not-null constraint")
    ELSE IF d.account_type \notin account_type
      THEN Failed(db, "invalid input value for enum account_type")
    ELSE IF Has(d, "code") /\ \E a \in db.accounts : a.user_id = userId /\ a.code = d.code
      THEN Failed(db, "duplicate key value violates unique constraint")
    ELSE Done([db EXCEPT
                !.accounts = @ \cup
                    {[id |-> "a" \o ToString(Cardinality(db.accounts) + 1),
                      user_id |-> userId, account_type |-> d.account_type,
                      code |-> IF Has(d, "code") THEN d.code ELSE NULL]}], 0)

\* (variant: the CREATE_CUSTOMER case falling through into CREATE_VENDOR)
insertCustomerAndVendor(db, userId, d) ==
    LET type == IF Has(d, "type") THEN d.type ELSE "customer"
    IN  IF ~Has(d, "name")
          THEN Failed(db, "null value violates not-null constraint")
        ELSE Done([db EXCEPT
                    !.customers = @ \cup
                        {[id |-> "k" \o ToString(Cardinality(db.customers) + 1),
                          user_id |-> userId, name |-> d.name, type |-> type]},
                    !.vendors = @ \cup
                        {[id |-> "v" \o ToString(Cardinality(db.vendors) + 1),
                          user_id |-> userId, name |-> d.name, type |-> "vendor"]}], 0)

\* supabase.from('customers').insert([{ user_id, name, ..., customer_type:
\*   data.customer_type || 'customer' }])
insertCustomer(db, userId, d) ==
    LET type == IF Has(d, "type") THEN d.type ELSE "customer"
    IN  IF ~Has(d, "name")
          THEN Failed(db, "null value violates not-null constraint")
        ELSE IF type \notin customer_types
          THEN Failed(db, "violates check constraint customers_customer_type_check")
        ELSE Done([db EXCEPT
                    !.customers = @ \cup
                        {[id |-> "k" \o ToString(Cardinality(db.customers) + 1),
                          user_id |-> userId, name |-> d.name, type |-> type]}], 0)

\* supabase.from('vendors').insert([{ user_id, name, ..., vendor_type:
\*   data.vendor_type || 'vendor' }])
insertVendor(db, userId, d) ==
    LET type == IF Has(d, "type") THEN d.type ELSE "vendor"
    IN  IF ~Has(d, "name")
          THEN Failed(db, "null value violates not-null constraint")
        ELSE IF type \notin vendor_types
          THEN Failed(db, "violates check constraint vendors_vendor_type_check")
        ELSE Done([db EXCEPT
                    !.vendors = @ \cup
                        {[id |-> "v" \o ToString(Cardinality(db.vendors) + 1),
                          user_id |-> userId, name |-> d.name, type |-> type]}], 0)

\* ------------------------------------------- ai-accountant: performAction
\* the confirmation each action returns on success
Confirmation(action, d) ==
    CASE action = "CREATE_TRANSACTION" ->
           Resp("Transaction recorded successfully! Added <word> of $<num> for <text>.",
                IF d.amount > 0 THEN "income" ELSE "expense", Abs(d.amount),
                <<d.description>>)
      [] action = "UPDATE_TRANSACTION" ->
           Resp("Transaction updated successfully! Modified <word> of $<num> for <text>.",
                IF d.amount > 0 THEN "income" ELSE "expense", Abs(d.amount),
                <<d.description>>)
      [] action = "CREATE_BUDGET" ->
           Resp("Budget <text> created successfully! Set limit of $<num> for <word> period.",
                d.budget_type, d.amount, <<d.name>>)
      [] action = "CREATE_CATEGORY" ->
           Resp("Category <text> created successfully!", "", 0, <<d.name>>)
      [] action = "CREATE_ACCOUNT" ->
           Resp("Account <text> created successfully!", "", 0, <<d.name>>)
      [] action = "CREATE_CUSTOMER" ->
           Resp("Customer <text> created successfully!", "", 0, <<d.name>>)
      [] OTHER ->
           Resp("Vendor <text> created successfully!", "", 0, <<d.name>>)

\* the catch block of performAction
ErrorFormat == "Error performing action: <text>"
ErrorResponse(message) == Resp(ErrorFormat, "", 0, <<message>>)

\* (variant: the fixed text whatever the reply says)
EchoResponseFixed(parsed) ==
    Resp("verbatim", "", 0, <<"Action completed successfully.">>)

\* the default branch: parsedResponse.response || "Action completed successfully."
EchoResponse(parsed) ==
    Resp("verbatim", "", 0,
         <<IF parsed.response # "" THEN parsed.response
           ELSE "Action completed successfully.">>)

ActionResult(action, response, db, calls, fired) ==
    [action |-> action, response |-> response, db |-> db, calls |-> calls,
     fired |-> fired]

\* (variant: the call's error is not looked at)
PerformedUnchecked(action, d, db, r) ==
    ActionResult(action, Confirmation(action, d), r.db, 1, r.fired)

\* the try block around one store call: the call's error is thrown and caught
Performed(action, d, db, r) ==
    IF r.error # ""
      THEN ActionResult(action, ErrorResponse(r.error), r.db, 1, 0)
      ELSE ActionResult(action, Confirmation(action, d), r.db, 1, r.fired)

\* reading data.amount (or data.name) of an absent data object throws inside
\* the try block, before any store call
NoDataResult(action, db) ==
    ActionResult(action, ErrorResponse("Cannot read properties of undefined"), db, 0, 0)

\* performAction of supabase/functions/ai-accountant/index.ts
performAction_index(parsed, userId, db) ==
    LET action == parsed.action
        d == parsed.data
    IN  IF action \notin {"CREATE_TRANSACTION", "CREATE_BUDGET", "CREATE_CATEGORY",
                          "CREATE_ACCOUNT"}
          THEN ActionResult(action, EchoResponse(parsed), db, 0, 0)
        ELSE IF ~parsed.hasData THEN NoDataResult(action, db)
        ELSE IF action = "CREATE_TRANSACTION"
          THEN Performed(action, d, db, insertTransaction(db, userId, d, "completed"))
        ELSE IF action = "CREATE_BUDGET"
          THEN Performed(action, d, db, insertBudget(db, userId, d))
        ELSE IF action = "CREATE_CATEGORY"
          THEN Performed(action, d, db, insertCategory(db, userId, d))
        ELSE Performed(action, d, db, insertAccount(db, userId, d))

\* performAction of the function embedded in the first migration file
performAction(parsed, userId, db) ==
    LET action == parsed.action
        d == parsed.data
    IN  IF action \notin {"CREATE_TRANSACTION", "UPDATE_TRANSACTION", "CREATE_BUDGET",
                          "CREATE_CATEGORY", "CREATE_ACCOUNT", "CREATE_CUSTOMER",
                          "CREATE_VENDOR"}
          THEN ActionResult(action, EchoResponse(parsed), db, 0, 0)
        ELSE IF ~parsed.hasData THEN NoDataResult(action, db)
        ELSE IF action = "CREATE_TRANSACTION"
          THEN Performed(action, d, db, insertTransaction(db, userId, d, "cleared"))
        ELSE IF action = "UPDATE_TRANSACTION"
          THEN Performed(action, d, db, updateTransaction(db, userId, d))
        ELSE IF action = "CREATE_BUDGET"
          THEN Performed(action, d, db, insertBudget(db, userId, d))
        ELSE IF action = "CREATE_CATEGORY"
          THEN Performed(action, d, db, insertCategory(db, userId, d))
        ELSE IF action = "CREATE_ACCOUNT"
          THEN Performed(action, d, db, insertAccount(db, userId, d))
        ELSE IF action = "CREATE_CUSTOMER"
          THEN Performed(action, d, db, insertCustomer(db, userId, d))
        ELSE Performed(action, d, db, insertVendor(db, userId, d))

\* ------------------------------------------- ai-accountant: the serve handler
Reply(status, response, performed, type, calls, fired, db) ==
    [status |-> status, response |-> response, actionPerformed |-> performed,
     actionType |-> type, calls |-> calls, fired |-> fired, db |-> db]

\* the outer catch: status 500 and the fixed apology
Apology ==
    "I apologize, but I encountered an error processing your request. Please try again."
ApologyReply(db) == Reply(500, Resp(Apology, "", 0, <<>>), FALSE, "", 0, 0, db)

\* (variant: the cleaned text returned instead of the raw one)
PlainReplyCleaned(aiResponse, db) ==
    Reply(200, Resp("verbatim", "", 0, cleanResponse(aiResponse)), FALSE, "", 0, 0, db)

\* finalResponse = actionResult ? actionResult.response : aiResponse
PlainReply(aiResponse, db) ==
    Reply(200, Resp("verbatim", "", 0, aiResponse), FALSE, "", 0, 0, db)
\* (variant: actionPerformed only when the action went through)
ActionReplyWhenDone(r) ==
    Reply(200, r.response, r.response.fmt # ErrorFormat, r.action, r.calls, r.fired, r.db)

\* the reply of a request whose model reply was an action: the result's
\* response, actionPerformed: !!actionResult, actionType: actionResult?.action
ActionReply(r) == Reply(200, r.response, TRUE, r.action, r.calls, r.fired, r.db)

\* parsedResponse.action is truthy (reading .action of null throws and is caught)
IsAction(parsed) ==
    parsed.ok /\ parsed.value.kind = "object" /\ parsed.value.action # ""

\* the model call: ok is FALSE when fetch, response.json() or
\* aiData.choices[0] throws
ModelOutcomes ==
    { [ok |-> FALSE, content |-> <<>>] } \cup { [ok |-> TRUE, content |-> r] : r \in Replies }

\* serve() of supabase/functions/ai-accountant/index.ts
serve_index(userId, ai, db) ==
    IF ~ai.ok THEN ApologyReply(db)
    ELSE LET parsed == JSONparse(ai.content)
         IN  IF IsAction(parsed)
               THEN ActionReply(performAction_index(parsed.value, userId, db))
               ELSE PlainReply(ai.content, db)

\* serve() of the function embedded in the first migration file
serve(userId, ai, db) ==
    IF ~ai.ok THEN ApologyReply(db)
    ELSE LET parsed == JSONparse(cleanResponse(ai.content))
         IN  IF IsAction(parsed)
               THEN ActionReply(performAction(parsed.value, userId, db))
               ELSE PlainReply(ai.content, db)

\* the rows serve() of index.ts selects for the system prompt, with the
\* service-role client: .eq('user_id', userId) on accounts, categories and
\* transactions (the limits of 10, 10 and 5 rows are above the table sizes here)
PromptContext_index(userId, db) ==
    [accounts |-> { r \in db.accounts : r.user_id = userId },
     categories |-> { r \in db.categories : r.user_id = userId },
     customers |-> {},
     vendors |-> {},
     transactions |-> { r \in db.transactions : r.user_id = userId }]

\* the same of the embedded function, which selects customers and vendors too
PromptContext(userId, db) ==
    [accounts |-> { r \in db.accounts : r.user_id = userId },
     categories |-> { r \in db.categories : r.user_id = userId },
     customers |-> { r \in db.customers : r.user_id = userId },
     vendors |-> { r \in db.vendors : r.user_id = userId },
     transactions |-> { r \in db.transactions : r.user_id = userId }]

\* one request served: the store the handler leaves, and the reply it sends.
\* caller is the user whose token the request carries, userId the field of
\* its body; the handler reads the body only.
Served(fn, caller, userId, ai, r) ==
    /\ handled < MaxRequests
    /\ handled' = handled + 1
    /\ transactions' = r.db.transactions
    /\ budgets' = r.db.budgets
    /\ nextTxnId' = r.db.nextTxnId
    /\ nextBudgetId' = r.db.nextBudgetId
    /\ accounts' = r.db.accounts
    /\ categories' = r.db.categories
    /\ customers' = r.db.customers
    /\ vendors' = r.db.vendors
    /\ req' = [fn |-> fn, caller |-> caller, userId |-> userId,
               context |-> IF fn = "index.ts" THEN PromptContext_index(userId, DB)
                           ELSE PromptContext(userId, DB),
               modelOk |-> ai.ok, ai |-> ai.content,
               status |-> r.status, response |-> r.response,
               actionPerformed |-> r.actionPerformed, actionType |-> r.actionType,
               calls |-> r.calls]
    /\ last' = [kind |-> "request", user |-> userId, runs |-> r.fired]
    /\ UNCHANGED concvars

ServeIndex(userId, ai) ==
    /\ Served("index.ts", userId, userId, ai, serve_index(userId, ai, DB))
    /\ UNCHANGED <<chatvars, rt>>
ServeEmbedded(userId, ai) ==
    /\ Served("embedded", userId, userId, ai, serve(userId, ai, DB))
    /\ UNCHANGED <<chatvars, rt>>

\* The store the requests start from: a budget of u1 on c1 for days 1..2 and
\* one transaction of u2.
InitDispatch ==
    /\ transactions = {TxnRow(1, "u2", -1, "c1", 1)}
    /\ budgets = {[id |-> 1, user_id |-> "u1", category_id |-> "c1",
                   start_date |-> 1, end_date |-> 2, spent_amount |-> 0]}
    /\ nextTxnId = 2
    /\ nextBudgetId = 2
    /\ last = [kind |-> "none", user |-> NULL, runs |-> 0]
    /\ sess = [s \in Sessions |-> IdleSession]
    /\ stale = FALSE
    /\ accounts = SignupAccounts
    /\ categories = SignupCategories
    /\ customers = {}
    /\ vendors = {}
    /\ handled = 0
    /\ req = NoRequest
    /\ InitChat
    /\ InitRealtime

NextDispatch ==
    \/ \E userId \in Users, ai \in ModelOutcomes : ServeIndex(userId, ai)
    \/ \E userId \in Users, ai \in ModelOutcomes : ServeEmbedded(userId, ai)

SpecDispatch == InitDispatch /\ [][NextDispatch]_vars

\* Requests whose body names any user: the function is called with the token
\* of caller and a body whose userId field the caller chose.
CallerOutcomes ==
    { [ok |-> FALSE, content |-> <<>>] } \cup
    { [ok |-> TRUE, content |-> r] :
        r \in { <<"words">>, <<"{expense}">>, <<"{category}">>, <<"{customer}">>,
                <<"{update}">> } }

ServeIndexAs(caller, userId, ai) ==
    /\ Served("index.ts", caller, userId, ai, serve_index(userId, ai, DB))
    /\ UNCHANGED <<chatvars, rt>>
ServeEmbeddedAs(caller, userId, ai) ==
    /\ Served("embedded", caller, userId, ai, serve(userId, ai, DB))
    /\ UNCHANGED <<chatvars, rt>>

NextCaller ==
    \/ \E caller \in Users, userId \in Users, ai \in CallerOutcomes :
          ServeIndexAs(caller, userId, ai)
    \/ \E caller \in Users, userId \in Users, ai \in CallerOutcomes :
          ServeEmbeddedAs(caller, userId, ai)

SpecCaller == InitDispatch /\ [][NextCaller]_vars

\* ------------------------------------------------ categories: every insert
\* the model outcomes the category requests draw from
CategoryOutcomes ==
    { [ok |-> TRUE, content |-> r] :
        r \in { <<"{category}">>, <<"{category-dup}">>, Fenced("{category-dup}"),
                <<"words">> } }

\* A category form of the client: an insert into categories as the signed-in
\* user, through the same table constraints; an error leaves the table as
\* it was.
CategoryFormInsert(u, name) ==
    LET r == insertCategory(DB, u, [NoData EXCEPT !.has = {"name"}, !.name = name])
    IN  /\ categories' = r.db.categories
        /\ last' = [kind |-> IF r.error = "" THEN "category form" ELSE "category form failed",
                    user |-> u, runs |-> 0]
        /\ UNCHANGED <<transactions, budgets, nextTxnId, nextBudgetId>>
        /\ UNCHANGED <<accounts, customers, vendors>>
        /\ UNCHANGED <<concvars, fnvars, chatvars, rt>>

NextCategories ==
    \/ \E userId \in Users, ai \in CategoryOutcomes : ServeIndex(userId, ai)
    \/ \E userId \in Users, ai \in CategoryOutcomes : ServeEmbedded(userId, ai)
    \/ \E u \in Users, name \in {"Travel", "Gifts", "Rent"} : CategoryFormInsert(u, name)

SpecCategories == InitDispatch /\ [][NextCategories]_vars

\* ------------------------------------------------ realtime: change messages
MaxCommits == 2

\* the table each view shows
ViewTable(v) ==
    CASE v = "AccountingDashboard" -> "transactions"
      [] v = "CustomerManager" -> "customers"
      [] v = "VendorManager" -> "vendors"
      [] OTHER -> "budgets"

\* ALTER PUBLICATION supabase_realtime ADD TABLE ...: the tables whose commits
\* are sent out as change messages
Publication == {"customers", "vendors"}

\* the views whose mount effect opens a channel .on('postgres_changes', ...)
\* for their table
Subscribed == {"AccountingDashboard", "CustomerManager", "VendorManager"}

\* a committed insert, update or delete of a row of table t: a change message
\* for each channel open on t, when t is in the publication
CommitMutation(t) ==
    /\ rt.commits[t] < MaxCommits
    /\ rt' = [rt EXCEPT
                !.commits[t] = @ + 1,
                !.pending = [v \in Views |->
                               IF t \in Publication /\ v \in Subscribed
                                  /\ ViewTable(v) = t
                                 THEN rt.pending[v] + 1 ELSE rt.pending[v]]]
    /\ UNCHANGED <<dbvars, concvars, sidevars, fnvars, chatvars>>

\* a change message reaches the channel of view v: its callback starts the
\* view's fetch
Deliver(v) ==
    /\ rt.pending[v] > 0
    /\ rt' = [rt EXCEPT !.pending[v] = @ - 1, !.fetching[v] = @ + 1]
    /\ UNCHANGED <<dbvars, concvars, sidevars, fnvars, chatvars>>

\* a fetch of view v returns: the view shows the table as committed
FetchDone(v) ==
    /\ rt.fetching[v] > 0
    /\ rt' = [rt EXCEPT !.fetching[v] = @ - 1, !.seen[v] = rt.commits[ViewTable(v)]]
    /\ UNCHANGED <<dbvars, concvars, sidevars, fnvars, chatvars>>

NextRealtime ==
    \/ \E t \in Tables : CommitMutation(t)
    \/ \E v \in Views : Deliver(v)
    \/ \E v \in Views : FetchDone(v)

\* change messages are delivered and fetches return
SpecRealtime ==
    /\ Init /\ [][NextRealtime]_vars
    /\ \A v \in Views : WF_vars(Deliver(v)) /\ WF_vars(FetchDone(v))

\* ------------------------------------------------- useChat: sendMessage
MaxSends == 2
MaxClicks == 2
MaxHookSends == 1

\* the user signed in at the hook, and the text typed
ChatUser == "u1"
Content == Resp("verbatim", "", 0, <<"msg">>)

\* the fixed strings of generateAIResponse
TroubleApology ==
    "I apologize, but I'm having trouble processing your request right now. Please try again."
NoResponseApology ==
    "I apologize, but I couldn't generate a response. Please try again."
DifficultiesApology ==
    "I'm currently experiencing technical difficulties. Please try again in a moment."

\* a response string that is falsy in data.response || ...
IsEmptyResponse(response) ==
    response.fmt = "verbatim" /\ response.text \in {<<>>, <<"">>}

\* (variant: the invoke error thrown on instead of answered with the apology)
generateAIResponseThrowing(r) ==
    IF r.status # 200 THEN Resp("", "", 0, <<"throw">>)
    ELSE IF IsEmptyResponse(r.response) THEN Resp(NoResponseApology, "", 0, <<>>)
    ELSE r.response

\* generateAIResponse, given the reply of the function: invoke() hands a reply
\* with a non-2xx status back as error
generateAIResponse(r) ==
    IF r.status # 200 THEN Resp(TroubleApology, "", 0, <<>>)
    ELSE IF IsEmptyResponse(r.response) THEN Resp(NoResponseApology, "", 0, <<>>)
    ELSE r.response

\* the model outcomes the chat requests draw from
ChatOutcomes ==
    { [ok |-> FALSE, content |-> <<>>] } \cup
    { [ok |-> TRUE, content |-> r] :
        r \in { <<"words">>, <<"{expense}">>, <<"{bad-account}">>, <<"{analyze}">> } }

Message(conversationId, role, content, at) ==
    [conversation_id |-> conversationId, role |-> role, content |-> content,
     created_at |-> at]

\* catch and finally of sendMessage: a toast, and setIsLoading(false)
SendFailed(why) ==
    /\ send' = [send EXCEPT !.pc = "done", !.outcome = why]
    /\ ui' = [ui EXCEPT !.isLoading = FALSE]

\* the effect on currentConversationId and the setter that triggers it: a
\* changed id starts fetchMessages, a change to undefined empties the list
setCurrentConversationId(u, id) ==
    IF id = u.currentConversationId THEN u
    ELSE IF id # NULL
      THEN [u EXCEPT !.currentConversationId = id,
                     !.loads = @ \cup {MessagesLoad(id)}]
      ELSE [u EXCEPT !.currentConversationId = NULL, !.messages = <<>>]

\* sendMessage up to its first await
SendStart ==
    /\ send.sends < MaxSends
    /\ ui' = [ui EXCEPT !.isLoading = TRUE, !.afterNew = FALSE]
    /\ send' = [IdleSend EXCEPT
                  !.pc = IF ui.currentConversationId = NULL THEN "create" ELSE "user",
                  !.conversationId = ui.currentConversationId,
                  !.content = Content,
                  !.sends = send.sends + 1]
    /\ UNCHANGED <<messages, conversations, now>>
    /\ UNCHANGED <<dbvars, concvars, sidevars, fnvars, rt>>

\* createNewConversation(content): getUser and the insert into conversations;
\* its catch throws the error on to sendMessage
SendCreate(ok) ==
    /\ send.pc = "create"
    /\ IF ok
         THEN LET id == "v" \o ToString(Cardinality(conversations) + 1)
              IN  /\ conversations' = conversations \cup
                        {[id |-> id, user_id |-> ChatUser, updated_at |-> now + 1]}
                  /\ now' = now + 1
                  /\ ui' = [setCurrentConversationId(ui, id) EXCEPT
                                !.conversations = <<id>> \o @]
                  /\ send' = [send EXCEPT !.pc = "user", !.conversationId = id,
                                          !.touchedFrom = now + 1,
                                          !.created = TRUE]
         ELSE /\ SendFailed("create failed")
              /\ UNCHANGED <<conversations, now>>
    /\ UNCHANGED messages
    /\ UNCHANGED <<dbvars, concvars, sidevars, fnvars, rt>>

\* the insert of the user message, and the local append
SendUser(ok) ==
    /\ send.pc = "user"
    /\ IF ok
         THEN LET m == Message(send.conversationId, "user", send.content, now + 1)
              IN  /\ messages' = Append(messages, m)
                  /\ now' = now + 1
                  /\ ui' = [ui EXCEPT !.messages = Append(@, m)]
                  /\ send' = [send EXCEPT
                        !.pc = "invoke",
                        !.touchedFrom =
                            (CHOOSE c \in conversations :
                                c.id = send.conversationId).updated_at]
         ELSE /\ SendFailed("user message failed")
              /\ UNCHANGED <<messages, now>>
    /\ UNCHANGED conversations
    /\ UNCHANGED <<dbvars, concvars, sidevars, fnvars, rt>>

\* generateAIResponse without a request served: getUser finds no user (why =
\* "auth", the catch answers), or invoke cannot reach the function (why =
\* "fetch", the error branch answers)
SendInvokeFailed(why) ==
    /\ send.pc = "invoke"
    /\ send' = [send EXCEPT
                  !.pc = "assistant",
                  !.aiResponse = IF why = "auth"
                                   THEN Resp(DifficultiesApology, "", 0, <<>>)
                                   ELSE Resp(TroubleApology, "", 0, <<>>)]
    /\ UNCHANGED <<messages, conversations, now, ui>>
    /\ UNCHANGED <<dbvars, concvars, sidevars, fnvars, rt>>

\* generateAIResponse with the request served by the function
Invoked(fn, ai, r) ==
    /\ send.pc = "invoke"
    /\ Served(fn, ChatUser, ChatUser, ai, r)
    /\ send' = [send EXCEPT !.pc = "assistant",
                            !.aiResponse = generateAIResponse(r),
                            !.acted = r.actionPerformed]
    /\ UNCHANGED <<messages, conversations, now, ui, rt>>

SendInvokeIndex(ai) == Invoked("index.ts", ai, serve_index(ChatUser, ai, DB))
SendInvokeEmbedded(ai) == Invoked("embedded", ai, serve(ChatUser, ai, DB))

\* the insert of the assistant message, and the local append
SendAssistant(ok) ==
    /\ send.pc = "assistant"
    /\ IF ok
         THEN LET m == Message(send.conversationId, "assistant", send.aiResponse, now + 1)
              IN  /\ messages' = Append(messages, m)
                  /\ now' = now + 1
                  /\ ui' = [ui EXCEPT !.messages = Append(@, m)]
                  /\ send' = [send EXCEPT !.pc = "touch"]
         ELSE /\ SendFailed("assistant message failed")
              /\ UNCHANGED <<messages, now>>
    /\ UNCHANGED conversations
    /\ UNCHANGED <<dbvars, concvars, sidevars, fnvars, rt>>

\* (variant: sendMessage ending without the update of the conversation)
SendTouchLeftOut(ok) ==
    /\ send.pc = "touch"
    /\ send' = [send EXCEPT !.pc = "done",
                            !.outcome = IF ok THEN "ok" ELSE "update failed"]
    /\ ui' = [ui EXCEPT !.isLoading = FALSE]
    /\ UNCHANGED <<messages, conversations, now>>
    /\ UNCHANGED <<dbvars, concvars, sidevars, fnvars, rt>>

\* the update of conversations.updated_at (the BEFORE UPDATE trigger writes
\* now()); its result is not looked at; then finally
SendTouch(ok) ==
    /\ send.pc = "touch"
    /\ IF ok
         THEN /\ conversations' =
                    { IF c.id = send.conversationId
                        THEN [c EXCEPT !.updated_at = now + 1] ELSE c :
                      c \in conversations }
              /\ now' = now + 1
         ELSE UNCHANGED <<conversations, now>>
    /\ send' = [send EXCEPT !.pc = "done",
                            !.outcome = IF ok THEN "ok" ELSE "update failed"]
    /\ ui' = [ui EXCEPT !.isLoading = FALSE]
    /\ UNCHANGED messages
    /\ UNCHANGED <<dbvars, concvars, sidevars, fnvars, rt>>

\* (variant: handleSubmit that does not look at isLoading)
handleSubmitUnguarded(input) ==
    /\ Trim(input) # <<>>
    /\ Trim(input) = Content.text
    /\ SendStart

\* ChatInterface.handleSubmit: nothing on blank input or while isLoading,
\* else sendMessage(input.trim())
handleSubmit(input) ==
    /\ Trim(input) # <<>> /\ ~ui.isLoading
    /\ Trim(input) = Content.text
    /\ SendStart

\* what the user may have typed
Inputs == { <<>>, <<SP>>, <<SP, "msg", NL>> }

\* .order('updated_at', { ascending: false }) of the conversations, as ids
RECURSIVE OrderByUpdatedDesc(_)
OrderByUpdatedDesc(S) ==
    IF S = {} THEN <<>>
    ELSE LET c == CHOOSE c \in S : \A d \in S : d.updated_at <= c.updated_at
         IN  <<c.id>> \o OrderByUpdatedDesc(S \ {c})

\* the rows a select of the hook returns (row level security: own rows)
Selected(l) ==
    IF l.kind = "messages"
      THEN SelectSeq(messages, LAMBDA m : m.conversation_id = l.arg)
      ELSE OrderByUpdatedDesc({ c \in conversations : c.user_id = ChatUser })

\* the select of a load runs at the database
LoadRead(l) ==
    /\ l \in ui.loads /\ ~l.read
    /\ ui' = [ui EXCEPT !.loads = (@ \ {l}) \cup
                                    {[l EXCEPT !.read = TRUE, !.data = Selected(l)]}]
    /\ UNCHANGED <<messages, conversations, now, send>>
    /\ UNCHANGED <<dbvars, concvars, sidevars, fnvars, rt>>

\* fetchMessages after its await: setMessages(data), or the toast
fetchMessages(l, ok) ==
    /\ l \in ui.loads /\ l.read /\ l.kind = "messages"
    /\ ui' = [ui EXCEPT !.loads = @ \ {l},
                        !.messages = IF ok THEN l.data ELSE @]
    /\ UNCHANGED <<messages, conversations, now, send>>
    /\ UNCHANGED <<dbvars, concvars, sidevars, fnvars, rt>>

\* fetchConversations after its await: setConversations(data), and the most
\* recent one selected if the render that called it had none selected
fetchConversations(l, ok) ==
    /\ l \in ui.loads /\ l.read /\ l.kind = "conversations"
    /\ LET u == [ui EXCEPT !.loads = @ \ {l}]
       IN  ui' = IF ~ok THEN u
                 ELSE LET v == [u EXCEPT !.conversations = l.data]
                      IN  IF Len(l.data) > 0 /\ l.arg = NULL
                            THEN setCurrentConversationId(v, l.data[1])
                            ELSE v
    /\ UNCHANGED <<messages, conversations, now, send>>
    /\ UNCHANGED <<dbvars, concvars, sidevars, fnvars, rt>>

\* selectConversation(id), from a row of the sidebar
selectConversation(id) ==
    /\ ui.clicks < MaxClicks
    /\ \E i \in 1..Len(ui.conversations) : ui.conversations[i] = id
    /\ ui' = [setCurrentConversationId(ui, id) EXCEPT
                  !.afterNew = FALSE, !.clicks = @ + 1]
    /\ UNCHANGED <<messages, conversations, now, send>>
    /\ UNCHANGED <<dbvars, concvars, sidevars, fnvars, rt>>

\* newConversation(), from the New Chat button
newConversation ==
    /\ ui.clicks < MaxClicks
    /\ ui' = [setCurrentConversationId(ui, NULL) EXCEPT
                  !.messages = <<>>,
                  !.loads = @ \cup {ConversationsLoad(ui.currentConversationId)},
                  !.afterNew = TRUE, !.clicks = @ + 1]
    /\ UNCHANGED <<messages, conversations, now, send>>
    /\ UNCHANGED <<dbvars, concvars, sidevars, fnvars, rt>>

NextChat ==
    \/ \E input \in Inputs : handleSubmit(input)
    \/ \E ok \in BOOLEAN : SendCreate(ok)
    \/ \E ok \in BOOLEAN : SendUser(ok)
    \/ \E why \in {"auth", "fetch"} : SendInvokeFailed(why)
    \/ \E ai \in ChatOutcomes : SendInvokeIndex(ai)
    \/ \E ai \in ChatOutcomes : SendInvokeEmbedded(ai)
    \/ \E ok \in BOOLEAN : SendAssistant(ok)
    \/ \E ok \in BOOLEAN : SendTouch(ok)

\* sendMessage by itself: the loads of the hook stay on their way
SpecChat == InitDispatch /\ [][NextChat]_vars

\* sendMessage with every awaited call answered, by a result or by an error
SendStep ==
    \/ \E ok \in BOOLEAN : SendCreate(ok)
    \/ \E ok \in BOOLEAN : SendUser(ok)
    \/ \E why \in {"auth", "fetch"} : SendInvokeFailed(why)
    \/ \E ai \in ChatOutcomes : SendInvokeIndex(ai)
    \/ \E ai \in ChatOutcomes : SendInvokeEmbedded(ai)
    \/ \E ok \in BOOLEAN : SendAssistant(ok)
    \/ \E ok \in BOOLEAN : SendTouch(ok)
SpecSend == InitDispatch /\ [][NextChat]_vars /\ WF_vars(SendStep)

\* the hook with its sidebar: the loads return, the user selects and starts
\* conversations while messages are sent
HookOutcomes ==
    { [ok |-> FALSE, content |-> <<>>], [ok |-> TRUE, content |-> <<"words">>] }
NextHook ==
    \/ \E input \in Inputs : send.sends < MaxHookSends /\ handleSubmit(input)
    \/ \E ok \in BOOLEAN : SendCreate(ok)
    \/ \E ok \in BOOLEAN : SendUser(ok)
    \/ SendInvokeFailed("fetch")
    \/ \E ai \in HookOutcomes : SendInvokeEmbedded(ai)
    \/ \E ok \in BOOLEAN : SendAssistant(ok)
    \/ \E ok \in BOOLEAN : SendTouch(ok)
    \/ \E l \in ui.loads : LoadRead(l)
    \/ \E l \in ui.loads, ok \in BOOLEAN : fetchMessages(l, ok)
    \/ \E l \in ui.loads, ok \in BOOLEAN : fetchConversations(l, ok)
    \/ \E id \in {c.id : c \in conversations} : selectConversation(id)
    \/ newConversation
SpecHook == InitDispatch /\ [][NextHook]_vars

\* ---------------------------------------------------------------- claims
TxnWrites == {"insert", "update", "delete"}

RECURSIVE RollupSum(_, _)
\* The rollup as the data model states it: the sum of |amount| over the rows
\* of the budget's owner, in the budget's category, with a negative amount and
\* a date inside the budget's own window.
RollupSum(b, rows) ==
    IF rows = {} THEN 0
    ELSE LET t == CHOOSE r \in rows : TRUE
             counts == /\ t.user_id = b.user_id
                       /\ t.category_id = b.category_id
                       /\ t.amount < 0
                       /\ t.transaction_date \in b.start_date .. b.end_date
         IN  (IF counts THEN 0 - t.amount ELSE 0) + RollupSum(b, rows \ {t})

\* C1: after a transaction insert, update or delete of user U, every budget of
\* U with a category has spent_amount equal to the rollup sum over U's
\* negative transactions of that category inside the budget's own window.
C1_RollupAfterWrite ==
    last.kind \in TxnWrites =>
        \A b \in budgets :
            (b.user_id = last.user /\ b.category_id # NULL)
                => b.spent_amount = RollupSum(b, transactions)

\* C1 witness: an update has just run and a budget of its user holds the sum
\* of two contributing rows (1 + 2).
C1_Witness ==
    /\ last.kind = "update"
    /\ \E b \in budgets :
          /\ b.user_id = last.user /\ b.category_id # NULL
          /\ b.spent_amount = 3
          /\ Cardinality(SpentRows(b, transactions)) = 2

\* C3 (as claimed): in every reachable state every budget with a category has
\* spent_amount equal to the rollup sum, also right after the budget's creation.
C3_RollupAlways ==
    \A b \in budgets :
        b.category_id # NULL => b.spent_amount = RollupSum(b, transactions)

\* C4 (as claimed): each single-row insert, update or delete on transactions
\* runs the budget recomputation exactly once.
C4_RecomputeOnce ==
    last.kind \in TxnWrites => last.runs = 1

\* C5: a transaction write of user U leaves every budget row of every other
\* user as it was, and the value written to U's budgets is the one computed
\* from U's transactions alone.
C5_OtherUsersUntouched ==
    [][ last'.kind \in TxnWrites =>
          /\ \A b \in budgets : b.user_id # last'.user => b \in budgets'
          /\ \A b \in budgets' :
                (b.user_id = last'.user /\ b.category_id # NULL)
                    => b.spent_amount =
                         Spent(b, { t \in transactions' : t.user_id = last'.user })
      ]_vars

\* C5 witness: u2 has just written a row in category c1 inside the window of a
\* budget of u1 on c1, and u1 has a budget on c1 whose value was left stale.
C5_Witness ==
    /\ last.kind \in TxnWrites /\ last.user = "u2"
    /\ \E b \in budgets, t \in transactions :
          /\ b.user_id = "u1" /\ b.category_id = "c1"
          /\ t.user_id = "u2" /\ t.category_id = "c1" /\ t.amount < 0
          /\ t.transaction_date \in b.start_date .. b.end_date
          /\ b.spent_amount # RollupSum(b, transactions)

\* C2: once the concurrent CREATE_TRANSACTION writes have all committed, each
\* budget with a category holds the sum of all the contributions, whatever the
\* interleaving of insert, recompute and commit was.
C2_BothContributions ==
    Quiescent =>
        \A b \in budgets :
            b.category_id # NULL => b.spent_amount = RollupSum(b, transactions)

\* C2 witness: both writes are committed, one of them recomputed on a snapshot
\* that missed the other's row, and the budget holds 1 + 2.
C2_Witness ==
    /\ Quiescent /\ stale
    /\ \E b \in budgets :
          /\ Cardinality(SpentRows(b, transactions)) = 2
          /\ b.spent_amount = 3

Request == handled' = handled + 1
StoreUnchanged ==
    UNCHANGED <<transactions, budgets, accounts, categories, customers, vendors>>

\* rows of a table that a step added, or changed under the same id
Touched(before, after) ==
    Cardinality({ r \in after : r \notin before })

\* the reply is exactly the text of one JSON value
BareJson(ai) == Len(ai) = 1 /\ ai[1] \in JsonTokens

\* C7: one request adds or changes at most one row among transactions,
\* budgets (new rows), categories, accounts, customers and vendors, and none
\* when the reply was not an action object.
C7_AtMostOneWrite ==
    [][ Request =>
          /\ Touched(transactions, transactions')
               + Cardinality(Ids(budgets') \ Ids(budgets))
               + Touched(categories, categories') + Touched(accounts, accounts')
               + Touched(customers, customers') + Touched(vendors, vendors') <= 1
          /\ ~req'.actionPerformed => StoreUnchanged
      ]_vars

\* C7 witness: a CREATE_CUSTOMER request has added its one row.
C7_Witness ==
    /\ req.actionType = "CREATE_CUSTOMER" /\ req.calls = 1
    /\ Cardinality(customers) = 1 /\ vendors = {}

\* C8 (as claimed): a reply that is a CREATE_TRANSACTION object with a negative
\* amount, a description and the id of an existing expense account creates
\* exactly one transaction with that amount, owned by the caller, with a status
\* of the transaction_status type, and the response is the confirmation with
\* the word expense and |amount|.
C8_ExpenseRecorded ==
    [][ ( /\ Request /\ req'.modelOk /\ BareJson(req'.ai)
          /\ LET v == JsonValue(req'.ai[1])
             IN  /\ v.action = "CREATE_TRANSACTION" /\ v.hasData
                 /\ {"amount", "description", "account_id"} \subseteq v.data.has
                 /\ v.data.amount < 0
                 /\ \E a \in accounts :
                       a.id = v.data.account_id /\ a.account_type = "expense" )
        => LET v == JsonValue(req'.ai[1])
           IN  /\ \E t \in transactions' :
                     /\ transactions' = transactions \cup {t} /\ t \notin transactions
                     /\ t.amount = v.data.amount
                     /\ t.user_id = req'.userId
                     /\ t.status \in transaction_status
               /\ req'.response.word = "expense"
               /\ req'.response.num = 0 - v.data.amount
      ]_vars

\* a store call that cannot succeed, read off the request and the store
CallMustFail(fn, userId, v) ==
    \/ /\ v.action = "CREATE_TRANSACTION" /\ v.hasData
       /\ v.data.account_id \notin Ids(accounts)
    \/ /\ v.action = "CREATE_CATEGORY" /\ v.hasData
       /\ \E c \in categories : c.user_id = userId /\ c.name = v.data.name
    \/ /\ fn = "embedded" /\ v.action = "UPDATE_TRANSACTION" /\ v.hasData
       /\ ~\E t \in transactions : t.id = v.data.id /\ t.user_id = userId

\* C9: when the store call of a catalog action fails (an account_id that
\* matches no account, a duplicate category name, an update that matches no
\* row), the reply has status 200, its response is the error format with the
\* failure message in it, and no row of any table is created or changed.
C9_FailedCallReported ==
    [][ ( /\ Request /\ req'.modelOk /\ BareJson(req'.ai)
          /\ CallMustFail(req'.fn, req'.userId, JsonValue(req'.ai[1])) )
        => /\ req'.status = 200
           /\ req'.response.fmt = ErrorFormat
           /\ req'.response.text # <<>> /\ req'.response.text # <<"">>
           /\ StoreUnchanged
      ]_vars

\* C9 witness: CREATE_TRANSACTION with the account id a9, which no account
\* has, was answered with the error format.
C9_Witness ==
    /\ req.modelOk /\ req.ai = <<"{bad-account}">>
    /\ req.response.fmt = ErrorFormat /\ req.status = 200
    /\ "a9" \notin Ids(accounts)

\* a reply that is not an action object: it holds plain words, or no JSON text
\* at all, or is an object without an action field
NotAnAction(ai) ==
    \/ \E i \in 1..Len(ai) : ai[i] = "words"
    \/ \A i \in 1..Len(ai) : ai[i] \notin JsonTokens
    \/ ai = <<"{no-action}">>

\* C10: a reply that is plain text, or an object without an action field, is
\* returned unchanged as the response, with actionPerformed false, and no row
\* is written.
C10_PlainTextVerbatim ==
    [][ (Request /\ req'.modelOk /\ NotAnAction(req'.ai))
        => /\ req'.response = Resp("verbatim", "", 0, req'.ai)
           /\ req'.actionPerformed = FALSE
           /\ req'.status = 200
           /\ StoreUnchanged
      ]_vars

\* C10 witness: a reply of plain words with white space around them was
\* answered.
C10_Witness ==
    /\ req.modelOk /\ req.ai = <<SP, "words", NL>>
    /\ req.status = 200 /\ ~req.actionPerformed

\* ------------------------------------------------------ claims on the chat
\* C11: when the model call of a request fails, the function answers with a
\* non-success status and the fixed apology, writes no row, and
\* generateAIResponse returns its own fixed apology, so that sendMessage goes on
\* to store it as the assistant message.
C11_ModelFailureApology ==
    [][ (Request /\ ~req'.modelOk)
        => /\ req'.status # 200
           /\ req'.response = Resp(Apology, "", 0, <<>>)
           /\ req'.calls = 0 /\ ~req'.actionPerformed
           /\ StoreUnchanged
           /\ send'.pc = "assistant"
           /\ send'.aiResponse = Resp(TroubleApology, "", 0, <<>>)
      ]_vars

\* C11 witness: a sendMessage whose request met a failing model call has ended
\* with the client's apology stored as the assistant message.
C11_Witness ==
    /\ send.pc = "done" /\ send.outcome = "ok"
    /\ ~req.modelOk /\ req.status = 500
    /\ Len(messages) >= 2
    /\ messages[Len(messages)].role = "assistant"
    /\ messages[Len(messages)].content = Resp(TroubleApology, "", 0, <<>>)

\* ---------------------------------------- more claims on the dispatcher
\* rows of a table that a step added or changed
Written(before, after) == { r \in after : r \notin before }

\* C12: every row a request adds or changes, in any table, has the request's
\* userId as its user_id, also when the data of the action names another
\* user_id; and in the function that has the UPDATE_TRANSACTION action, an
\* update naming a transaction of another user changes no row and answers with
\* the error format.
C12_RowsCarryUserId ==
    [][ Request =>
          /\ \A r \in Written(transactions, transactions') \cup Written(budgets, budgets')
                    \cup Written(accounts, accounts') \cup Written(categories, categories')
                    \cup Written(customers, customers') \cup Written(vendors, vendors') :
                r.user_id = req'.userId
          /\ ( /\ req'.fn = "embedded" /\ req'.modelOk /\ BareJson(req'.ai)
               /\ LET v == JsonValue(req'.ai[1])
                  IN  /\ v.action = "UPDATE_TRANSACTION" /\ v.hasData
                      /\ \E t \in transactions :
                            t.id = v.data.id /\ t.user_id # req'.userId )
             => (StoreUnchanged /\ req'.response.fmt = ErrorFormat)
      ]_vars

\* C12 witness: a transaction asked for with user_id u2 in its data was stored
\* for the requesting user u1, and u1's update of the transaction of u2 was
\* answered with the error format.
C12_Witness ==
    /\ \E t \in transactions : t.amount = -3 /\ t.user_id = "u1"
    /\ req.fn = "embedded" /\ req.userId = "u1" /\ req.ai = <<"{update}">>
    /\ req.response.fmt = ErrorFormat
    /\ \E t \in transactions : t.id = 1 /\ t.user_id = "u2"

\* C13 (as claimed): a request carrying the token of one user reads into the
\* prompt context, adds and changes only rows whose user_id is that user,
\* whatever userId its body names.
C13_OnlyCallersRows ==
    [][ Request =>
          /\ \A r \in req'.context.accounts \cup req'.context.categories
                    \cup req'.context.customers \cup req'.context.vendors
                    \cup req'.context.transactions :
                r.user_id = req'.caller
          /\ \A r \in Written(transactions, transactions') \cup Written(budgets, budgets')
                    \cup Written(accounts, accounts') \cup Written(categories, categories')
                    \cup Written(customers, customers') \cup Written(vendors, vendors') :
                r.user_id = req'.caller
      ]_vars

\* C14: when a sendMessage has ended with none of its calls failing, the
\* messages table holds the user message and, after it, the assistant message
\* with the final response text, both in the call's conversation, and the
\* conversation's updated_at is later than both and than it was before;
\* whether or not the request performed an action.
C14_MessagesThenTimestamp ==
    (send.pc = "done" /\ send.outcome = "ok") =>
        \E i, j \in 1..Len(messages) :
            /\ i < j
            /\ messages[i].role = "user" /\ messages[i].content = send.content
            /\ messages[j].role = "assistant" /\ messages[j].content = send.aiResponse
            /\ messages[i].conversation_id = send.conversationId
            /\ messages[j].conversation_id = send.conversationId
            /\ send.touchedFrom < messages[i].created_at
            /\ messages[i].created_at < messages[j].created_at
            /\ \E c \in conversations :
                  /\ c.id = send.conversationId
                  /\ c.updated_at > messages[j].created_at
                  /\ c.updated_at > send.touchedFrom

\* C14 witness: the second sendMessage, in the conversation the first one
\* created, has ended without error after a request that performed an action.
C14_Witness ==
    /\ send.pc = "done" /\ send.outcome = "ok" /\ send.sends = 2
    /\ send.acted /\ Len(messages) = 4
    /\ req.actionPerformed /\ messages[4].content = req.response

\* C15 (as claimed): when a sendMessage has ended, on whatever path, a user
\* message it stored or an action its request performed is followed by a
\* stored assistant message of the same conversation.
C15_ReplyAlwaysStored ==
    ( /\ send.pc = "done"
      /\ \/ send.acted
         \/ \E i \in 1..Len(messages) :
               /\ messages[i].role = "user"
               /\ messages[i].created_at > send.touchedFrom )
    => /\ Len(messages) > 0
       /\ messages[Len(messages)].role = "assistant"
       /\ messages[Len(messages)].conversation_id = send.conversationId
       /\ messages[Len(messages)].created_at > send.touchedFrom

\* the seven actions of the catalog
CatalogActions ==
    {"CREATE_TRANSACTION", "UPDATE_TRANSACTION", "CREATE_BUDGET", "CREATE_CATEGORY",
     "CREATE_ACCOUNT", "CREATE_CUSTOMER", "CREATE_VENDOR"}

\* C16: a reply that parses to an object whose action is none of the seven
\* catalog actions makes no store call and changes no row, and the final
\* response is the reply's own response text (the fixed text "Action completed
\* successfully." when the reply has none).
C16_UnknownActionEchoed ==
    [][ \A tok \in JsonTokens :
          ( /\ Request /\ req'.modelOk
            /\ req'.ai \in {<<tok>>, <<NL, tok, NL>>}
            /\ JsonValue(tok).kind = "object"
            /\ JsonValue(tok).action \notin CatalogActions \cup {""} )
          => /\ StoreUnchanged /\ req'.calls = 0
             /\ req'.status = 200
             /\ req'.response =
                  Resp("verbatim", "", 0,
                       <<IF JsonValue(tok).response # "" THEN JsonValue(tok).response
                         ELSE "Action completed successfully.">>)
      ]_vars

\* C16 witness: an ANALYZE_SPENDING reply was answered with its own text.
C16_Witness ==
    /\ req.modelOk /\ req.ai = <<"{analyze}">> /\ req.actionType = "ANALYZE_SPENDING"
    /\ req.response = Resp("verbatim", "", 0, <<"insight">>)

\* C17 (as claimed): a reply that is an action object inside a fence, with or
\* without the json tag and with white space around it, leaves the same rows
\* and gets the same reply as the bare object would from the same store.
C17_FenceMakesNoDifference ==
    [][ \A tok \in JsonTokens :
          ( /\ Request /\ req'.modelOk
            /\ JsonValue(tok).kind = "object" /\ JsonValue(tok).action # ""
            /\ req'.ai \in { Fenced(tok), FencedBare(tok),
                             <<NL>> \o Fenced(tok) \o <<SP>> } )
          => LET bare == [ok |-> TRUE, content |-> <<tok>>]
                 r == IF req'.fn = "index.ts"
                        THEN serve_index(req'.userId, bare, DB)
                        ELSE serve(req'.userId, bare, DB)
             IN  /\ req'.response = r.response
                 /\ req'.actionPerformed = r.actionPerformed
                 /\ req'.actionType = r.actionType
                 /\ transactions' = r.db.transactions
                 /\ budgets' = r.db.budgets
      ]_vars

\* ------------------------------------------- more claims on the rollup
\* the step inserted, or deleted, exactly the transaction t
InsertedRow(t) ==
    t \notin transactions /\ transactions' = transactions \cup {t}
DeletedRow(t) ==
    t \in transactions /\ transactions' = transactions \ {t}
\* the step changed the transaction old into new, under the same id
UpdatedRow(old, new) ==
    /\ old \in transactions /\ new \notin transactions /\ new.id = old.id
    /\ transactions' = (transactions \ {old}) \cup {new}

\* the budget row b after the step
After(b) == CHOOSE c \in budgets' : c.id = b.id

\* C18 (as claimed): inserting a transaction with amount -x, x > 0, raises the
\* spent_amount of each budget of its owner on its category by exactly x when
\* its date is within the budget's window, bounds included, and by 0 when it is
\* not; each budget by its own window.
C18_InsertAddsAmount ==
    [][ \A t \in transactions' :
          (InsertedRow(t) /\ t.amount < 0)
          => \A b \in budgets :
                (b.user_id = t.user_id /\ b.category_id = t.category_id)
                => After(b).spent_amount =
                     b.spent_amount +
                       (IF b.start_date <= t.transaction_date
                           /\ t.transaction_date <= b.end_date
                          THEN 0 - t.amount ELSE 0)
      ]_vars

\* C19 (as claimed): inserting a transaction with an amount >= 0, or changing
\* a transaction into one with an amount >= 0, raises no budget's
\* spent_amount.
C19_NonNegativeAddsNothing ==
    [][ \A t \in transactions' :
          ( /\ t.amount >= 0
            /\ \/ InsertedRow(t)
               \/ \E old \in transactions : UpdatedRow(old, t) )
          => \A b \in budgets : After(b).spent_amount <= b.spent_amount
      ]_vars

\* C20: deleting a transaction with amount -x, x > 0, whose x is part of a
\* budget's spent_amount (the budget is of its owner, on its category, its
\* window holds its date, and spent_amount is the rollup of the rows present)
\* lowers that spent_amount by exactly x; the budgets are found by the user_id
\* of the deleted row.
C20_DeleteTakesAmount ==
    [][ \A t \in transactions :
          (DeletedRow(t) /\ t.amount < 0)
          => \A b \in budgets :
                ( /\ b.user_id = t.user_id /\ b.category_id = t.category_id
                  /\ b.start_date <= t.transaction_date
                  /\ t.transaction_date <= b.end_date
                  /\ b.spent_amount = RollupSum(b, transactions) )
                => After(b).spent_amount = b.spent_amount + t.amount
      ]_vars

\* C20 witness: after a delete by u1, one transaction of u1 is left and a
\* budget of u1 on its category counts exactly that one.
C20_Witness ==
    /\ last.kind = "delete" /\ last.user = "u1" /\ nextTxnId = 3
    /\ Cardinality(transactions) = 1
    /\ \E b \in budgets, t \in transactions :
          /\ b.user_id = "u1" /\ t.user_id = "u1" /\ b.category_id = t.category_id
          /\ t.amount < 0 /\ b.spent_amount = 0 - t.amount

\* C21: no step changes a budget row whose category_id is null: its
\* spent_amount is the 0 it was created with, through every transaction write.
C21_NullCategoryBudgetKept ==
    [][ /\ \A b \in budgets : b.category_id = NULL => b \in budgets'
        /\ \A b \in budgets' : b.category_id = NULL => b.spent_amount = 0
      ]_vars

\* C21 witness: u1 has a budget without category, and the last write was an
\* insert by u1 that left an expense of u1 inside that budget's window.
C21_Witness ==
    /\ last.kind = "insert" /\ last.user = "u1"
    /\ \E b \in budgets, t \in transactions :
          /\ b.category_id = NULL /\ b.user_id = "u1" /\ b.spent_amount = 0
          /\ t.user_id = "u1" /\ t.amount < 0
          /\ b.start_date <= t.transaction_date /\ t.transaction_date <= b.end_date

\* C22: no two category rows of one user have the same name, whatever
\* CREATE_CATEGORY requests and form inserts came before; and a
\* CREATE_CATEGORY request for a name the user already has is answered with
\* the error format and adds no row.
C22_CategoryNamesUnique ==
    /\ [](\A c1 \in categories, c2 \in categories :
            (c1.user_id = c2.user_id /\ c1.name = c2.name) => c1 = c2)
    /\ [][ ( /\ Request /\ req'.modelOk /\ BareJson(req'.ai)
             /\ JsonValue(req'.ai[1]).action = "CREATE_CATEGORY"
             /\ \E c \in categories :
                   /\ c.user_id = req'.userId
                   /\ c.name = JsonValue(req'.ai[1]).data.name )
           => (req'.response.fmt = ErrorFormat /\ categories' = categories)
         ]_vars

\* C22 witness: u1 has the category Gifts once, and a CREATE_CATEGORY request
\* of u1 for Gifts was answered with the error format.
C22_Witness ==
    /\ req.userId = "u1" /\ req.ai = <<"{category}">>
    /\ req.response.fmt = ErrorFormat
    /\ Cardinality({ c \in categories : c.user_id = "u1" /\ c.name = "Gifts" }) = 1

\* C23 (as claimed): every committed mutation of a row of transactions,
\* customers, vendors or budgets is followed, in the end, by a refetch of the
\* view that shows the table.
C23_MutationsReachViews ==
    \A v \in Views : \A n \in 1..MaxCommits :
        (rt.commits[ViewTable(v)] = n) ~> (rt.seen[v] >= n)

\* the budget b is on the category of row t and its window holds t's date
Covers(b, t) ==
    /\ b.user_id = t.user_id /\ b.category_id = t.category_id
    /\ b.start_date <= t.transaction_date /\ t.transaction_date <= b.end_date

\* C24 (as claimed): an update that moves an expense to another category, or
\* to a date in another budget's window, lowers in the same write the
\* spent_amount of the owner's budgets it leaves and raises that of the
\* owner's budgets it enters.
C24_MoveLowersAndRaises ==
    [][ \A old \in transactions, new \in transactions' :
          (UpdatedRow(old, new) /\ old.amount < 0 /\ new.amount = old.amount)
          => \A b \in budgets :
                /\ (Covers(b, old) /\ ~Covers(b, new))
                      => After(b).spent_amount < b.spent_amount
                /\ (~Covers(b, old) /\ Covers(b, new))
                      => After(b).spent_amount > b.spent_amount
      ]_vars

\* no fetchMessages is on its way
MessagesLoaded == \A l \in ui.loads : l.kind # "messages"

\* C25 (as claimed, looked at once the loads of messages have returned):
\* however sendMessage interleaves with selectConversation and
\* newConversation, every message in the hook's list belongs to the
\* conversation in currentConversationId.
C25_LocalMessagesOfCurrent ==
    MessagesLoaded =>
        \A i \in 1..Len(ui.messages) :
            ui.messages[i].conversation_id = ui.currentConversationId

\* the persisted messages of a conversation, in the order of created_at
Persisted(conversationId) ==
    SelectSeq(messages, LAMBDA m : m.conversation_id = conversationId)

\* C26 (as claimed): when sendMessage has created its conversation on demand
\* and has ended well, and the fetchMessages started by the new
\* currentConversationId has returned, the hook's list is the list of the
\* persisted messages of that conversation: none twice, none lost.
C26_LocalListIsPersisted ==
    ( /\ send.pc = "done" /\ send.outcome = "ok" /\ send.created
      /\ ui.currentConversationId = send.conversationId
      /\ MessagesLoaded )
    => ui.messages = Persisted(send.conversationId)

\* C27 (as claimed): after newConversation(), with nothing selected, no
\* fetchConversations that returns selects a conversation:
\* currentConversationId stays undefined until the next sendMessage.
C27_NewConversationStays ==
    [][ ( /\ ui.afterNew /\ ui.currentConversationId = NULL
          /\ \E l \in ui.loads, ok \in BOOLEAN : fetchConversations(l, ok) )
        => ui'.currentConversationId = NULL
      ]_vars

\* C28 (as claimed, for the account and the category of the row): every
\* transaction a CREATE_TRANSACTION or UPDATE_TRANSACTION stores names an
\* account of the user the row belongs to, and a category, if any, of that
\* user.
C28_ReferencesOwnedByUser ==
    [][ Request =>
          \A t \in Written(transactions, transactions') :
              /\ \E a \in accounts : a.id = t.account_id /\ a.user_id = t.user_id
              /\ t.category_id # NULL
                    => \E c \in categories :
                          c.id = t.category_id /\ c.user_id = t.user_id
      ]_vars

\* the text a function hands to JSON.parse
ParsedText(fn, ai) == IF fn = "embedded" THEN cleanResponse(ai) ELSE ai

\* the action names of the JSON objects with a truthy action that text stands for
ActionNames(text) ==
    { JsonValue(tok).action :
        tok \in { k \in JsonTokens :
                    /\ Trim(text) = <<k>>
                    /\ JsonValue(k).kind = "object" /\ JsonValue(k).action # "" } }

\* C29: a request is answered with actionPerformed true exactly when the model
\* reply parses to a JSON object with a truthy action, whether or not the
\* action is known and whether or not its store call went through; actionType
\* is then the action's name.
C29_ActionPerformedIffAction ==
    [][ Request =>
          LET names == IF req'.modelOk THEN ActionNames(ParsedText(req'.fn, req'.ai))
                       ELSE {}
          IN  /\ req'.actionPerformed <=> names # {}
              /\ req'.actionPerformed => names = {req'.actionType}
      ]_vars

\* C29 witness: a CREATE_TRANSACTION whose insert failed on the account was
\* answered with the error format, actionPerformed true and its action name.
C29_Witness ==
    /\ req.modelOk /\ req.ai = <<"{bad-account}">>
    /\ req.response.fmt = ErrorFormat /\ req.calls = 1
    /\ req.actionPerformed /\ req.actionType = "CREATE_TRANSACTION"

\* C30: every sendMessage comes to its end, and at its end, on success and on
\* each failure, isLoading is false; while isLoading is true handleSubmit
\* starts no sendMessage.
C30_SendEndsNotLoading ==
    /\ [](send.pc = "done" => ~ui.isLoading)
    /\ (send.pc \notin {"idle", "done"}) ~> (send.pc = "done")
    /\ [][send.sends' # send.sends => ~ui.isLoading]_vars

\* C30 witness: a second sendMessage, started after the first had ended, has
\* failed on the insert of its user message and left isLoading false.
C30_Witness ==
    /\ send.sends = 2 /\ send.pc = "done"
    /\ send.outcome = "user message failed" /\ ~ui.isLoading

====
